---- MODULE Spec2Model ----
(***************************************************************************)
(* The versioned decoder dispatcher of desub (desub/src/lib.rs) and the    *)
(* chain/spec range lookup of the extras crate (extras/src/extrinsics.rs). *)
(*                                                                         *)
(* Dispatcher state: the current-regime table `current_metadata` and the   *)
(* legacy decoder `legacy_decoder` (its table of registered versions).     *)
(* Every public method of Decoder is one action; `ret` holds the last call *)
(* and what it returned, `registered` is a history variable holding, per   *)
(* spec version, the metadata of the last successful register_version.     *)
(***************************************************************************)
EXTENDS Integers, Sequences, FiniteSets, TLC

VARIABLES current_metadata, legacy_decoder, ret, registered, extrinsics, types_ret

vars == <<current_metadata, legacy_decoder, ret, registered, extrinsics, types_ret>>

(* ------------------------------ bounds --------------------------------- *)

\* spec versions are 1..MaxSpec
MaxSpec == 2
\* a block body holds at most MaxExts extrinsics
MaxExts == 2
\* a chain of the type dictionary holds at most MaxRanges ranges
MaxRanges == 2

(* ------------------------------ values --------------------------------- *)

\* Option<T>
None == <<>>
Some(x) == <<x>>

\* Result<T, E>
Ok(v) == [ok |-> TRUE, val |-> v]
Err(e) == [ok |-> FALSE, err |-> e]

SpecVersions == 1..MaxSpec

\* the one-byte metadata versions the blobs carry: one below the legacy
\* range, a legacy one, two current ones
MetaVersions == {7, 13, 14, 15}

\* the metadata bodies the blobs carry; body 0 does not convert to the
\* internal schema
MetaBodies == {0, 1}

\* encoded extrinsics, storage keys and storage values; 0 does not decode
Encoded == {0, 1}

\* the prefix word of a metadata blob ("meta")
MetaMagic == "meta"

\* metadata blobs: truncated ones, and <<magic, version, body>>
Blobs ==
    {<<>>, <<MetaMagic>>}
        \cup {<<MetaMagic, v, b>> : v \in MetaVersions, b \in MetaBodies}

\* block bodies: sequences of at most MaxExts encoded extrinsics
RECURSIVE SeqsUpTo(_, _)
SeqsUpTo(S, n) ==
    IF n = 0 THEN {<<>>}
    ELSE LET shorter == SeqsUpTo(S, n - 1)
         IN  shorter \cup {Append(s, x) : s \in {t \in shorter : Len(t) = n - 1}, x \in S}

Blocks == SeqsUpTo(Encoded, MaxExts)

\* storage keys and optional storage values
StorageKeys == Encoded
StorageValues == {None} \cup {Some(v) : v \in Encoded}

\* a faulty insert: the table is rebuilt around the new entry, the other
\* entries are lost
insert_fresh(map, version, value) ==
    [s \in DOMAIN map |-> IF s = version THEN Some(value) ELSE None]

\* HashMap::insert: the entry of `version` is set, every other entry is kept
insert(map, version, value) == [map EXCEPT ![version] = Some(value)]

(* ------------------------------ errors --------------------------------- *)

\* Error::SpecVersionNotFound(version)
SpecVersionNotFound(version) == [kind |-> "SpecVersionNotFound", version |-> version]

\* Error::V14 { source, ext }
V14(source, ext) == [kind |-> "V14", source |-> source, ext |-> ext]

\* the conversion `?` applies to an error of a callee: From::from(e) sees the
\* callee's error and nothing else of the caller's frame
From(kind, e) == [kind |-> kind, source |-> e]

\* the spec version an error value carries, if any
ErrorSpecVersion(e) ==
    IF e.kind = "SpecVersionNotFound" THEN Some(e.version) ELSE None

\* the decoded prefix an error value carries, if any
ErrorExt(e) ==
    IF e.kind = "V14" THEN e.ext ELSE None

(* --------------------------- metadata parsing -------------------------- *)

\* <RuntimeMetadataPrefixed as Decode>::decode: the prefix word, the version
\* byte, the body; a blob that ends early is a codec error
DecodePrefixed(bytes) ==
    IF Len(bytes) < 3
    THEN Err("codec: not enough data")
    ELSE Ok([magic |-> bytes[1], version |-> bytes[2], body |-> bytes[3]])

\* desub_current::Metadata::from_runtime_metadata
DesubMetadata_from_runtime_metadata(rm) ==
    IF rm.body = 0
    THEN Err("metadata: invalid")
    ELSE Ok([version |-> rm.version, body |-> rm.body])

\* desub_legacy::decoder::Metadata::from_runtime_metadata: versions below 8
\* are not supported
LegacyDesubMetadata_from_runtime_metadata(rm) ==
    IF rm.version < 8
    THEN Err("metadata: unsupported version")
    ELSE IF rm.body = 0
    THEN Err("metadata: invalid")
    ELSE Ok([version |-> rm.version, body |-> rm.body])

\* desub_current::decoder::decode_storage(&meta): the storage decoder built
\* from a metadata
StorageDecoder(meta) == [entries |-> meta.body]

(* --------------------------- legacy decoder ---------------------------- *)

\* LegacyDecoder::new: no version registered
LegacyDecoder_new == [s \in SpecVersions |-> None]

\* LegacyDecoder::has_version
LegacyDecoder_has_version(legacy, version) == legacy[version] # None

\* LegacyDecoder::register_version: inserts, replacing an earlier entry
LegacyDecoder_register_version(legacy, version, meta) ==
    [legacy |-> insert(legacy, version, meta), result |-> Ok(<<>>)]

\* the extrinsics of a block decoded in order under a metadata, up to the
\* first one that does not decode
RECURSIVE DecodedPrefix(_, _)
DecodedPrefix(meta, data) ==
    IF data = <<>> \/ Head(data) = 0
    THEN <<>>
    ELSE <<[meta |-> meta, call |-> Head(data)]>> \o DecodedPrefix(meta, Tail(data))

\* LegacyDecoder::decode_extrinsics: Result<Vec<GenericExtrinsic>, Error>,
\* the first failure is returned by itself
LegacyDecoder_decode_extrinsics(legacy, version, data) ==
    LET meta == legacy[version][1]
        prefix == DecodedPrefix(meta, data)
    IN  IF Len(prefix) = Len(data)
        THEN Ok(prefix)
        ELSE Err([kind |-> "decode", at |-> Len(prefix) + 1])

\* LegacyDecoder::decode_storage
LegacyDecoder_decode_storage(legacy, version, key, value) ==
    LET meta == legacy[version][1]
    IN  IF key = 0 \/ value = Some(0)
        THEN Err([kind |-> "decode", at |-> 1])
        ELSE Ok([meta |-> meta, key |-> key, value |-> value])

(* --------------------------- current decoder --------------------------- *)

\* desub_current::decoder::decode_extrinsics: Ok(all) or Err((prefix, e))
decoder_decode_extrinsics(meta, data) ==
    LET prefix == DecodedPrefix(meta, data)
    IN  IF Len(prefix) = Len(data)
        THEN Ok(prefix)
        ELSE Err(<<prefix, [kind |-> "decode", at |-> Len(prefix) + 1]>>)

\* StorageDecoder::decode_entry
StorageDecoder_decode_entry(storage_decoder, meta, key, value) ==
    IF key = 0 \/ value = Some(0)
    THEN Err([kind |-> "decode", at |-> 1])
    ELSE Ok([meta |-> meta, key |-> key, value |-> value])

\* Err((ext, e)) => Err(Error::V14 { source: e, ext: Some(ext) })
V14Err(pair) == Err(V14(pair[2], Some(pair[1])))

\* LegacyOrCurrent::Legacy / LegacyOrCurrent::Current
Legacy(x) == [regime |-> "Legacy", inner |-> x]
Current(x) == [regime |-> "Current", inner |-> x]

\* v.into_iter().map(LegacyOrCurrentExtrinsic::Current).collect()
MapCurrent(v) == [i \in 1..Len(v) |-> Current(v[i])]

\* ext.into_iter().map(LegacyOrCurrentExtrinsic::Legacy).collect()
MapLegacy(ext) == [i \in 1..Len(ext) |-> Legacy(ext[i])]

(* ------------------------------ Decoder -------------------------------- *)

\* the dispatcher's state as the methods see it
Self(current, legacy) == [current_metadata |-> current, legacy_decoder |-> legacy]

\* Decoder::new / Decoder::with_custom_types
Decoder_new == Self([s \in SpecVersions |-> None], LegacyDecoder_new)

\* HashMap::contains_key on the current-regime table
contains_key(self, version) == self.current_metadata[version] # None

\* a faulty early return: the entry of `version` was taken out of the
\* current-regime table before the blob was parsed, and is not put back
Failed_removed(self, version, e) ==
    [self |-> Self([self.current_metadata EXCEPT ![version] = None],
                   self.legacy_decoder),
     result |-> Err(e)]

\* register_version returning early through `?`: nothing of self has been
\* touched yet, the caller gets the error
Failed(self, version, e) == [self |-> self, result |-> Err(e)]

\* Decoder::register_version
register_version(self, version, bytes) ==
    LET metadata == DecodePrefixed(bytes)
    IN  IF ~metadata.ok
        THEN Failed(self, version, From("Codec", metadata.err))
        ELSE IF metadata.val.version >= 14
        THEN LET meta == DesubMetadata_from_runtime_metadata(metadata.val)
             IN  IF ~meta.ok
                 THEN Failed(self, version, From("Metadata", meta.err))
                 ELSE [self |->
                          Self(insert(self.current_metadata, version,
                                      [metadata |-> meta.val,
                                       storage_decoder |-> StorageDecoder(meta.val)]),
                               self.legacy_decoder),
                       result |-> Ok(<<>>)]
        ELSE LET meta == LegacyDesubMetadata_from_runtime_metadata(metadata.val)
             IN  IF ~meta.ok
                 THEN Failed(self, version, From("Legacy", meta.err))
                 ELSE LET reg == LegacyDecoder_register_version(
                                     self.legacy_decoder, version, meta.val)
                      IN  IF ~reg.result.ok
                          THEN [self |-> Self(self.current_metadata, reg.legacy),
                                result |-> Err(From("Legacy", reg.result.err))]
                          ELSE [self |-> Self(self.current_metadata, reg.legacy),
                                result |-> Ok(<<>>)]

\* a faulty decode_extrinsics: the legacy branch does not ask has_version
\* and hands the call to the legacy decoder, which reports its own error
decode_extrinsics_unchecked(self, version, data) ==
    IF contains_key(self, version)
    THEN LET metadata == self.current_metadata[version][1].metadata
             r == decoder_decode_extrinsics(metadata, data)
         IN  IF r.ok
             THEN Ok(MapCurrent(r.val))
             ELSE V14Err(r.err)
    ELSE IF ~LegacyDecoder_has_version(self.legacy_decoder, version)
    THEN Err(From("Legacy", [kind |-> "MissingSpec", version |-> version]))
    ELSE LET ext == LegacyDecoder_decode_extrinsics(self.legacy_decoder, version, data)
         IN  IF ~ext.ok
             THEN Err(From("Legacy", ext.err))
             ELSE Ok(MapLegacy(ext.val))

\* Decoder::decode_extrinsics
decode_extrinsics(self, version, data) ==
    IF contains_key(self, version)
    THEN LET metadata == self.current_metadata[version][1].metadata
             r == decoder_decode_extrinsics(metadata, data)
         IN  IF r.ok
             THEN Ok(MapCurrent(r.val))
             ELSE V14Err(r.err)
    ELSE IF ~LegacyDecoder_has_version(self.legacy_decoder, version)
    THEN Err(SpecVersionNotFound(version))
    ELSE LET ext == LegacyDecoder_decode_extrinsics(self.legacy_decoder, version, data)
         IN  IF ~ext.ok
             THEN Err(From("Legacy", ext.err))
             ELSE Ok(MapLegacy(ext.val))

\* Decoder::decode_storage
decode_storage(self, version, key_data, value_data) ==
    IF contains_key(self, version)
    THEN LET entry == self.current_metadata[version][1]
             r == StorageDecoder_decode_entry(
                      entry.storage_decoder, entry.metadata, key_data, value_data)
         IN  IF r.ok
             THEN Ok(Current(r.val))
             ELSE Err(V14(r.err, None))
    ELSE IF ~LegacyDecoder_has_version(self.legacy_decoder, version)
    THEN Err(SpecVersionNotFound(version))
    ELSE LET storage == LegacyDecoder_decode_storage(
                            self.legacy_decoder, version, key_data, value_data)
         IN  IF ~storage.ok
             THEN Err(From("Legacy", storage.err))
             ELSE Ok(Legacy(storage.val))

\* a faulty has_version: the legacy decoder is not asked
has_version_current_only(self, version) == contains_key(self, version)

\* Decoder::has_version
has_version(self, version) ==
    contains_key(self, version)
        \/ LegacyDecoder_has_version(self.legacy_decoder, version)

(* ------------------------- extras: Extrinsics -------------------------- *)

Chains == {"kusama", "polkadot"}

\* the chains a query may name; "westend" never has an entry
QueryChains == Chains \cup {"westend"}

\* the specs a query may name; MaxSpec + 1 lies above every bounded range
QuerySpecs == 1..(MaxSpec + 1)

\* TypeRange: { minMax: [min, max | null], types }
TypeRanges ==
    [min : SpecVersions,
     max : {None} \cup {Some(m) : m \in SpecVersions},
     types : {"a", "b"}]

RangeLists == SeqsUpTo(TypeRanges, MaxRanges)

\* the one range list "polkadot" has when it has an entry
PolkadotRanges == <<[min |-> 1, max |-> None, types |-> "p"]>>

\* Extrinsics(HashMap<String, Vec<TypeRange>>) with the given optional entries
Extrinsics(kusama, polkadot) ==
    [c \in {x \in Chains : IF x = "kusama" THEN kusama # None ELSE polkadot # None} |->
        IF c = "kusama" THEN kusama[1] ELSE polkadot[1]]

\* the documents Extrinsics::new may have parsed
Documents ==
    {Extrinsics(k, p) :
        k \in {None} \cup {Some(l) : l \in RangeLists},
        p \in {None, Some(PolkadotRanges)}}

\* crate::is_in_range: min <= spec, and spec <= max unless max is null
is_in_range(spec, f) ==
    f.min <= spec /\ (f.max = None \/ spec <= f.max[1])

\* Iterator::find: the first element, in order, the predicate accepts
RECURSIVE find(_, _)
find(list, spec) ==
    IF list = <<>> THEN None
    ELSE IF is_in_range(spec, Head(list)) THEN Some(Head(list))
    ELSE find(Tail(list), spec)

\* the last element, in order, the predicate accepts
RECURSIVE rfind(_, _)
rfind(list, spec) ==
    IF list = <<>> THEN None
    ELSE LET later == rfind(Tail(list), spec)
         IN  IF later # None THEN later
             ELSE IF is_in_range(spec, Head(list)) THEN Some(Head(list))
             ELSE None

\* a faulty get_chain_types: the last matching range wins
get_chain_types_last(self, chain, spec) ==
    IF chain \notin DOMAIN self
    THEN None
    ELSE LET o == rfind(self[chain], spec)
         IN  IF o = None THEN None ELSE Some(o[1].types)

\* Extrinsics::get_chain_types
get_chain_types(self, chain, spec) ==
    IF chain \notin DOMAIN self
    THEN None
    ELSE LET o == find(self[chain], spec)
         IN  IF o = None THEN None ELSE Some(o[1].types)

(* ------------------------------ actions -------------------------------- *)

\* the dispatcher the methods are called on
self == Self(current_metadata, legacy_decoder)

\* what the caller passed as metadata, when the blob has a header to read
Header(bytes) == [version |-> bytes[2], body |-> bytes[3]]

Init ==
    /\ current_metadata = Decoder_new.current_metadata
    /\ legacy_decoder = Decoder_new.legacy_decoder
    /\ ret = [op |-> "new"]
    /\ registered = [s \in SpecVersions |-> None]
    /\ extrinsics = Extrinsics(None, None)
    /\ types_ret = [op |-> "new"]

RegisterVersion(version, bytes) ==
    LET r == register_version(self, version, bytes)
    IN  /\ current_metadata' = r.self.current_metadata
        /\ legacy_decoder' = r.self.legacy_decoder
        /\ ret' = [op |-> "register_version", version |-> version,
                   args |-> <<bytes>>, result |-> r.result]
        /\ registered' = IF r.result.ok
                         THEN [registered EXCEPT ![version] = Some(Header(bytes))]
                         ELSE registered
        /\ UNCHANGED <<extrinsics, types_ret>>

DecodeExtrinsics(version, data) ==
    /\ ret' = [op |-> "decode_extrinsics", version |-> version,
               args |-> <<data>>, result |-> decode_extrinsics(self, version, data)]
    /\ UNCHANGED <<current_metadata, legacy_decoder, registered, extrinsics, types_ret>>

DecodeStorage(version, key_data, value_data) ==
    /\ ret' = [op |-> "decode_storage", version |-> version,
               args |-> <<key_data, value_data>>,
               result |-> decode_storage(self, version, key_data, value_data)]
    /\ UNCHANGED <<current_metadata, legacy_decoder, registered, extrinsics, types_ret>>

HasVersion(version) ==
    /\ ret' = [op |-> "has_version", version |-> version,
               args |-> <<>>, result |-> has_version(self, version)]
    /\ UNCHANGED <<current_metadata, legacy_decoder, registered, extrinsics, types_ret>>

Next ==
    \E version \in SpecVersions :
        \/ \E bytes \in Blobs : RegisterVersion(version, bytes)
        \/ \E data \in Blocks : DecodeExtrinsics(version, data)
        \/ \E key_data \in StorageKeys, value_data \in StorageValues :
               DecodeStorage(version, key_data, value_data)
        \/ HasVersion(version)

Spec == Init /\ [][Next]_vars

\* the type dictionary: any parsed document, queried any number of times
InitTypes ==
    /\ current_metadata = Decoder_new.current_metadata
    /\ legacy_decoder = Decoder_new.legacy_decoder
    /\ ret = [op |-> "new"]
    /\ registered = [s \in SpecVersions |-> None]
    /\ extrinsics \in Documents
    /\ types_ret = [op |-> "new"]

GetChainTypes(chain, spec) ==
    /\ types_ret' = [op |-> "get_chain_types", chain |-> chain, spec |-> spec,
                     result |-> get_chain_types(extrinsics, chain, spec)]
    /\ UNCHANGED <<current_metadata, legacy_decoder, ret, registered, extrinsics>>

NextTypes ==
    \E chain \in QueryChains, spec \in QuerySpecs : GetChainTypes(chain, spec)

SpecTypes == InitTypes /\ [][NextTypes]_vars

(* ------------------------------ claims --------------------------------- *)

\* a decode result that is the error SpecVersionNotFound
IsSpecVersionNotFound(r) == ~r.ok /\ r.err.kind = "SpecVersionNotFound"

\* C1: for a spec version s that was never successfully registered, every
\* decode_extrinsics(s, bytes) and every decode_storage(s, key, value)
\* returns the error SpecVersionNotFound carrying exactly s.
C1_UnregisteredIsNotFound ==
    \A s \in SpecVersions :
        registered[s] = None =>
            /\ \A data \in Blocks :
                  LET r == decode_extrinsics(self, s, data)
                  IN  IsSpecVersionNotFound(r) /\ r.err.version = s
            /\ \A key_data \in StorageKeys, value_data \in StorageValues :
                  LET r == decode_storage(self, s, key_data, value_data)
                  IN  IsSpecVersionNotFound(r) /\ r.err.version = s

\* C1 witness: a decode of a never-registered version returned
\* SpecVersionNotFound while another version was registered.
C1_Witness ==
    /\ ret.op \in {"decode_extrinsics", "decode_storage"}
    /\ registered[ret.version] = None
    /\ IsSpecVersionNotFound(ret.result)
    /\ \E t \in SpecVersions : registered[t] # None

\* C2: in every reachable state and for every spec version s, has_version(s)
\* is true exactly when a decode_extrinsics(s, ..) or decode_storage(s, ..)
\* made in that state does not return SpecVersionNotFound.
C2_HasVersionIffDecodable ==
    \A s \in SpecVersions :
        /\ \A data \in Blocks :
              has_version(self, s) <=> ~IsSpecVersionNotFound(decode_extrinsics(self, s, data))
        /\ \A key_data \in StorageKeys, value_data \in StorageValues :
              has_version(self, s)
                  <=> ~IsSpecVersionNotFound(decode_storage(self, s, key_data, value_data))

\* C2 witness: has_version answered true for a version only the legacy
\* decoder knows, while another version is unknown.
C2_Witness ==
    /\ ret.op = "has_version"
    /\ ret.result = TRUE
    /\ ~contains_key(self, ret.version)
    /\ \E t \in SpecVersions : ~has_version(self, t)

\* C3: no spec version is at the same time a key of the current-regime
\* table and known to the legacy decoder.
C3_RegimeExclusive ==
    \A s \in SpecVersions :
        ~(contains_key(self, s) /\ LegacyDecoder_has_version(legacy_decoder, s))

\* what decoding the well-formed item x with the registered metadata m, under
\* the regime the version of m selects, yields
DecodedUnder(m, x) ==
    IF m.version >= 14
    THEN Current([meta |-> m, call |-> x])
    ELSE Legacy([meta |-> m, call |-> x])

\* C4: after the last successful register_version(s, m2), decode_extrinsics
\* and decode_storage for s decode with m2 under the regime of m2, whatever
\* was registered for s before.
C4_LastRegistrationDecodes ==
    \A s \in SpecVersions :
        registered[s] # None =>
            /\ decode_extrinsics(self, s, <<1>>) = Ok(<<DecodedUnder(registered[s][1], 1)>>)
            /\ LET r == decode_storage(self, s, 1, None)
               IN  r.ok /\ r.val.regime = DecodedUnder(registered[s][1], 1).regime
                        /\ r.val.inner.meta = registered[s][1]

\* the number of extrinsics of a block in front of the first one that does
\* not decode
RECURSIVE GoodPrefixLen(_)
GoodPrefixLen(data) ==
    IF data = <<>> \/ Head(data) = 0 THEN 0 ELSE 1 + GoodPrefixLen(Tail(data))

\* C5: whenever decode_extrinsics(s, bytes) fails on an inner extrinsic of a
\* registered version s, under either regime, the error carries the list of
\* the extrinsics decoded before the failure.
C5_ErrorCarriesPrefix ==
    \A s \in SpecVersions, data \in Blocks :
        LET r == decode_extrinsics(self, s, data)
        IN  (has_version(self, s) /\ ~r.ok) =>
                /\ ErrorExt(r.err) # None
                /\ Len(ErrorExt(r.err)[1]) = GoodPrefixLen(data)

\* C6: the current-regime table holds metadata of version 14 or higher only,
\* the legacy decoder metadata of versions 8 to 13 only, and decodes for s
\* are routed to the regime the last successfully registered blob of s chose.
C6_RegimeSelection ==
    \A s \in SpecVersions :
        /\ contains_key(self, s) => current_metadata[s][1].metadata.version >= 14
        /\ LegacyDecoder_has_version(legacy_decoder, s) =>
              legacy_decoder[s][1].version \in 8..13
        /\ registered[s] # None =>
              LET r == decode_extrinsics(self, s, <<1>>)
              IN  r.ok /\ r.val[1].regime = DecodedUnder(registered[s][1], 1).regime

\* C7: every error register_version(s, ..) returns has s attached.
C7_RegisterErrorCarriesSpec ==
    (ret.op = "register_version" /\ ~ret.result.ok) =>
        ErrorSpecVersion(ret.result.err) = Some(ret.version)

\* a block of one well-formed extrinsic, decoded before and after a step to
\* compare what the step did to the answers of decode_extrinsics
Probe == <<1>>

\* the calls that take &self
ReadOnlyOps == {"decode_extrinsics", "decode_storage", "has_version"}

\* C8: decode_extrinsics, decode_storage and has_version leave the whole
\* registration table unchanged, register_version(s, ..) changes nothing but
\* the registration of s, and a decode repeated with the same arguments
\* right after itself returns an equal result.
C8_Frame ==
    [][/\ ret'.op \in ReadOnlyOps =>
              /\ current_metadata' = current_metadata
              /\ legacy_decoder' = legacy_decoder
       /\ ret'.op = "register_version" =>
              \A t \in SpecVersions \ {ret'.version} :
                  /\ current_metadata'[t] = current_metadata[t]
                  /\ legacy_decoder'[t] = legacy_decoder[t]
                  /\ has_version(self, t)' = has_version(self, t)
                  /\ decode_extrinsics(self, t, Probe)' = decode_extrinsics(self, t, Probe)
       /\ (/\ ret.op \in ReadOnlyOps
           /\ ret'.op = ret.op
           /\ ret'.version = ret.version
           /\ ret'.args = ret.args) => ret'.result = ret.result
      ]_vars

\* C8 witness: a version was registered successfully while another version,
\* registered before, is still there with the metadata it was given.
C8_Witness ==
    /\ ret.op = "register_version"
    /\ ret.result.ok
    /\ \E t \in SpecVersions \ {ret.version} :
          /\ registered[t] # None
          /\ decode_extrinsics(self, t, <<1>>) = Ok(<<DecodedUnder(registered[t][1], 1)>>)

\* C9: a register_version that fails (the blob does not decode, or the
\* metadata does not convert) leaves the current-regime table and the legacy
\* decoder as they were, so has_version and every decode answer as before.
C9_FailedRegisterChangesNothing ==
    [][(ret'.op = "register_version" /\ ~ret'.result.ok) =>
           /\ current_metadata' = current_metadata
           /\ legacy_decoder' = legacy_decoder
           /\ \A s \in SpecVersions :
                 /\ has_version(self, s)' = has_version(self, s)
                 /\ decode_extrinsics(self, s, Probe)' = decode_extrinsics(self, s, Probe)
      ]_vars

\* C9 witness: a registration failed in the conversion of the metadata for
\* a version that is registered under the current regime.
C9_Witness ==
    /\ ret.op = "register_version"
    /\ ~ret.result.ok
    /\ ret.result.err.kind = "Metadata"
    /\ contains_key(self, ret.version)

\* C10: get_chain_types(chain, spec) is None exactly when the chain has no
\* entry or none of its ranges contains spec; otherwise it is the types of
\* the range that contains spec and has no range containing spec before it.
C10_FirstMatchingRange ==
    types_ret.op = "get_chain_types" =>
        LET r == types_ret.result
            c == types_ret.chain
            sp == types_ret.spec
            l == IF c \in DOMAIN extrinsics THEN extrinsics[c] ELSE <<>>
            hits == {i \in 1..Len(l) : l[i].min <= sp /\ (l[i].max = None \/ sp <= l[i].max[1])}
        IN  /\ r = None <=> hits = {}
            /\ r # None =>
                  \E i \in hits :
                      /\ \A j \in hits : i <= j
                      /\ r = Some(l[i].types)

\* C10 witness: two ranges of the chain contain the spec, with different
\* types, and the answer is that of the first.
C10_Witness ==
    /\ types_ret.op = "get_chain_types"
    /\ types_ret.chain \in DOMAIN extrinsics
    /\ LET l == extrinsics[types_ret.chain]
       IN  /\ Len(l) = 2
           /\ is_in_range(types_ret.spec, l[1])
           /\ is_in_range(types_ret.spec, l[2])
           /\ l[1].types # l[2].types
           /\ types_ret.result = Some(l[1].types)

====
